---- MODULE Spec2Model ----
(***************************************************************************)
(* 2FAST2Q: the read-matching and counting engine of src/2FAST2Q.py.       *)
(*                                                                         *)
(* Text is modelled as sequences of one-character strings, quality lines   *)
(* as sequences of ASCII codes, Python's None as the empty set and a       *)
(* present value v as {v}.  Positions are Python's 0-based indices.        *)
(***************************************************************************)
EXTENDS Integers, Sequences, FiniteSets, TLC

VARIABLES
    param,          \* the run's configuration (param dict), fixed after Init
    files,          \* files[i]: the reads of file i seen so far (a 4-line group each)
    eof,            \* eof[i]: the end of file i has been seen
    failed_reads,   \* the scheduler's failed set      (aligner_mp_dispenser)
    passed_reads,   \* the scheduler's passed map      (aligner_mp_dispenser)
    spc,            \* where the scheduler stands
    start,          \* the scheduler's batch start index
    queue,          \* tasks handed to the pool and not yet taken by a process
    proc,           \* the pool's processes
    result,         \* the AsyncResults the scheduler holds, by task id
    output,         \* output[i]: the per-file table written for file i, or {}
    fn              \* a single call of a pure function: its arguments and result

vars == <<param, files, eof, failed_reads, passed_reads, spc, start, queue,
          proc, result, output, fn>>

runVars == <<param, files, eof, failed_reads, passed_reads, spc, start, queue,
             proc, result, output>>

---------------------------------------------------------------------------
(* Bounds of the model *)

MaxLen == 2         \* longest sequence handed to a pure function
MaxFeat == 2        \* most features handed to features_all_vs_all
MaxLimit == 2       \* largest mismatch limit handed to a pure function
MaxQualLen == 2     \* longest quality window handed to the quality gate
MaxMiss == 2        \* largest configured mismatch budget (param['miss'])
MaxReads == 3       \* most reads in a file processed alone
MaxBatchReads == 2  \* most reads in a file of a multi-file run
MaxWorkers == 2     \* most worker results handed to one cache merge
MaxReadLen == 6     \* longest read handed to the Anchor Locator
MaxThreshold == 2   \* largest quality threshold given to the front ends
MaxCores == 5       \* most cores mp.cpu_count() reports

---------------------------------------------------------------------------
(* Text *)

Min(a, b) == IF a < b THEN a ELSE b
Max(a, b) == IF a > b THEN a ELSE b

Chars == {"A", "C", "T", "a", "t"}

\* bytearray(sequence,'utf8'): the byte of each character
Ord == [c \in Chars |->
          CASE c = "A" -> 65 [] c = "C" -> 67 [] c = "T" -> 84
            [] c = "a" -> 97 [] c = "t" -> 116]

\* str.upper / bytes.upper on one character
UpperChar(c) == CASE c = "a" -> "A" [] c = "t" -> "T" [] OTHER -> c

Upper(s) == [i \in 1..Len(s) |-> UpperChar(s[i])]

\* Python's s[a:b] for integers a and b (negative ones count from the end)
PySlice(s, a, b) ==
    LET n == Len(s)
        lo == IF a < 0 THEN Max(n + a, 0) ELSE Min(a, n)
        hi == IF b < 0 THEN Max(n + b, 0) ELSE Min(b, n)
    IN  IF lo >= hi THEN <<>> ELSE SubSeq(s, lo + 1, hi)

\* the elements of a sequence, as set() of a string gives them
Elems(s) == {s[i] : i \in 1..Len(s)}

\* all sequences over S of length at most n
SeqsUpTo(S, n) == UNION {[1..k -> S] : k \in 0..n}

seq2bin(sequence) == [i \in 1..Len(sequence) |-> Ord[sequence[i]]]

---------------------------------------------------------------------------
(* Matcher *)

RECURSIVE binary_subtract_loop(_, _, _, _, _)
binary_subtract_loop(array1, array2, mismatch, i, miss) ==
    IF i > Min(Len(array1), Len(array2))          \* zip stops at the shorter one
    THEN 1
    ELSE LET m == IF array1[i] - array2[i] # 0 THEN miss + 1 ELSE miss
         IN  IF m > mismatch THEN 0
             ELSE binary_subtract_loop(array1, array2, mismatch, i + 1, m)

\* Mutant: "if miss >= mismatch" for "if miss > mismatch"
binary_subtract_strict(array1, array2, mismatch) ==
    binary_subtract_loop(array1, array2, mismatch - 1, 1, 0)

binary_subtract(array1, array2, mismatch) ==
    binary_subtract_loop(array1, array2, mismatch, 1, 0)

\* binary_features is the dict of binary_converter: its keys in insertion
\* order (a sequence of feature sequences); the value of a key is seq2bin(key).
RECURSIVE features_all_vs_all_loop(_, _, _, _, _, _)
features_all_vs_all_loop(binary_features, read, mismatch, k, found, found_guide) ==
    IF k > Len(binary_features)
    THEN IF found = 1 THEN found_guide ELSE {}
    ELSE IF binary_subtract(seq2bin(binary_features[k]), read, mismatch) # 0
         THEN IF found + 1 >= 2 THEN {}
              ELSE features_all_vs_all_loop(binary_features, read, mismatch,
                                            k + 1, found + 1, {binary_features[k]})
         ELSE features_all_vs_all_loop(binary_features, read, mismatch,
                                       k + 1, found, found_guide)

\* Mutant: the first feature within the limit wins, ambiguous or not
RECURSIVE features_first_match(_, _, _, _)
features_first_match(binary_features, read, mismatch, k) ==
    IF k > Len(binary_features) THEN {}
    ELSE IF binary_subtract(seq2bin(binary_features[k]), read, mismatch) # 0
         THEN {binary_features[k]}
         ELSE features_first_match(binary_features, read, mismatch, k + 1)

features_all_vs_all_first(binary_features, read, mismatch) ==
    features_first_match(binary_features, read, mismatch, 1)

features_all_vs_all(binary_features, read, mismatch) ==
    features_all_vs_all_loop(binary_features, read, mismatch, 1, 0, {})

---------------------------------------------------------------------------
(* Anchor Locator *)

RECURSIVE border_finder_loop(_, _, _, _)
border_finder_loop(seq, read, mismatch, i) ==
    LET s == Len(seq)
        r == Len(read)
        fall_over_index == r - s - 1
        comparison == PySlice(read, i, s + i)
        finder == binary_subtract(seq, comparison, mismatch)
    IN  IF i >= r THEN {}                       \* the loop over read is exhausted
        ELSE IF i > fall_over_index THEN {}
        ELSE IF finder # 0 THEN {i}
        ELSE border_finder_loop(seq, read, mismatch, i + 1)

\* Mutant: "if i >= fall_over_index" for "if i > fall_over_index"
RECURSIVE border_finder_early_loop(_, _, _, _)
border_finder_early_loop(seq, read, mismatch, i) ==
    IF i >= Len(read) THEN {}
    ELSE IF i >= Len(read) - Len(seq) - 1 THEN {}
    ELSE IF binary_subtract(seq, PySlice(read, i, Len(seq) + i), mismatch) # 0 THEN {i}
    ELSE border_finder_early_loop(seq, read, mismatch, i + 1)

border_finder_early(seq, read, mismatch) ==
    border_finder_early_loop(seq, read, mismatch, 0)

border_finder(seq, read, mismatch) == border_finder_loop(seq, read, mismatch, 0)

---------------------------------------------------------------------------
(* Quality Gate *)

\* '!"#$%&' + "'()*+,-/0123456789:;<=>?@ABCDEFGHI", as ASCII codes
quality_list ==
    <<33, 34, 35, 36, 37, 38,
      39, 40, 41, 42, 43, 44, 45, 47,
      48, 49, 50, 51, 52, 53, 54, 55, 56, 57,
      58, 59, 60, 61, 62, 63, 64,
      65, 66, 67, 68, 69, 70, 71, 72, 73>>

\* set(quality_list[:int(param['phred'])-1])
quality_set(phred) == Elems(PySlice(quality_list, 0, phred - 1))

\* len(quality_set.intersection(quality)) == 0
quality_pass(qset, quality) == qset \cap Elems(quality) = {}

---------------------------------------------------------------------------
(* Configuration: the quality thresholds of the two front ends.  An option *)
(* not given on the command line is None ({}).                             *)

\* inputs_handler, lines 485-493 (the interactive front end)
inputs_handler(parameters) ==
    [phred |-> IF parameters.phred = 0 THEN 1 ELSE parameters.phred,
     qual_up |-> IF parameters.qual_up = 0 THEN 1 ELSE parameters.qual_up,
     qual_down |-> IF parameters.qual_down = 0 THEN 1 ELSE parameters.qual_down]

\* input_parser, lines 762-766 and 788-794 (the command line)
input_parser(args) ==
    [phred |-> IF args.ph = {} THEN 30
               ELSE IF (CHOOSE v \in args.ph : TRUE) = 0 THEN 1
               ELSE CHOOSE v \in args.ph : TRUE,
     qual_up |-> IF args.qsu = {} THEN 30 ELSE CHOOSE v \in args.qsu : TRUE,
     qual_down |-> IF args.qsd = {} THEN 30 ELSE CHOOSE v \in args.qsd : TRUE]

\* initializer, lines 655-657: the three rejecting sets
initializer(par) ==
    [quality_set |-> quality_set(par.phred),
     quality_set_up |-> quality_set(par.qual_up),
     quality_set_down |-> quality_set(par.qual_down)]

\* cpu_counter, lines 1051-1060: the number of processes asked of mp.Pool;
\* cpu is False ({}) when no worker count was given
cpu_counter(cpu, available_cpu) ==
    IF cpu = {}
    THEN LET c1 == IF available_cpu >= 3 THEN available_cpu - 2 ELSE available_cpu
         IN  IF c1 = 2 THEN c1 - 1 ELSE c1
    ELSE IF (CHOOSE c \in cpu : TRUE) > available_cpu THEN available_cpu
         ELSE CHOOSE c \in cpu : TRUE

---------------------------------------------------------------------------
(* Record Extractor *)

\* Mutant: the upstream-only branch without "start+=len(param['upstream'])"
unfixed_starting_place_parser_at_anchor(read, qual, par) ==
    LET read_bin == seq2bin(read)
        up == IF par.upstream = {} THEN <<>>
              ELSE seq2bin(Upper(CHOOSE u \in par.upstream : TRUE))
        down == IF par.downstream = {} THEN <<>>
                ELSE seq2bin(Upper(CHOOSE d \in par.downstream : TRUE))
        st == border_finder(up, read_bin, par.miss_search_up)
        en == border_finder(down, read_bin, par.miss_search_down)
        up_ok == \A s0 \in st :
                   quality_pass(quality_set(par.qual_up), PySlice(qual, s0, s0 + Len(up)))
        down_ok == \A e0 \in en :
                     quality_pass(quality_set(par.qual_down),
                                  PySlice(qual, e0, e0 + Len(down)))
    IN  IF par.upstream # {} /\ par.downstream # {}
        THEN IF st # {} /\ en # {} /\ up_ok /\ down_ok
             THEN <<{s0 + Len(up) : s0 \in st}, en>> ELSE <<{}, {}>>
        ELSE IF par.upstream # {}
        THEN IF st # {} /\ up_ok
             THEN <<st, {s0 + par.length : s0 \in st}>> ELSE <<{}, {}>>
        ELSE IF par.downstream # {}
        THEN IF en # {} /\ down_ok
             THEN <<{e0 - par.length : e0 \in en}, en>> ELSE <<{}, {}>>
        ELSE <<{}, {}>>

\* Returns <<start, end>>, each None ({}) or a position ({p}).
unfixed_starting_place_parser(read, qual, par) ==
    LET read_bin == seq2bin(read)
        up == IF par.upstream = {} THEN <<>>
              ELSE seq2bin(Upper(CHOOSE u \in par.upstream : TRUE))
        down == IF par.downstream = {} THEN <<>>
                ELSE seq2bin(Upper(CHOOSE d \in par.downstream : TRUE))
        qset_up == quality_set(par.qual_up)
        qset_down == quality_set(par.qual_down)
    IN  IF par.upstream # {} /\ par.downstream # {} THEN
            LET st == border_finder(up, read_bin, par.miss_search_up)
                en == border_finder(down, read_bin, par.miss_search_down)
            IN  IF st # {} /\ en # {} THEN
                    LET s0 == CHOOSE x \in st : TRUE
                        e0 == CHOOSE x \in en : TRUE
                        qual_up == PySlice(qual, s0, s0 + Len(up))
                        qual_down == PySlice(qual, e0, e0 + Len(down))
                    IN  IF quality_pass(qset_up, qual_up)
                           /\ quality_pass(qset_down, qual_down)
                        THEN <<{s0 + Len(up)}, {e0}>>
                        ELSE <<{}, {}>>
                ELSE <<{}, {}>>
        ELSE IF par.upstream # {} /\ par.downstream = {} THEN
            LET st == border_finder(up, read_bin, par.miss_search_up)
            IN  IF st # {} THEN
                    LET s0 == CHOOSE x \in st : TRUE
                        qual_up == PySlice(qual, s0, s0 + Len(up))
                    IN  IF quality_pass(qset_up, qual_up)
                        THEN <<{s0 + Len(up)}, {s0 + Len(up) + par.length}>>
                        ELSE <<{}, {}>>
                ELSE <<{}, {}>>
        ELSE IF par.upstream = {} /\ par.downstream # {} THEN
            LET en == border_finder(down, read_bin, par.miss_search_down)
            IN  IF en # {} THEN
                    LET e0 == CHOOSE x \in en : TRUE
                        qual_down == PySlice(qual, e0, e0 + Len(down))
                    IN  IF quality_pass(qset_down, qual_down)
                        THEN <<{e0 - par.length}, {e0}>>
                        ELSE <<{}, {}>>
                ELSE <<{}, {}>>
        ELSE <<{}, {}>>

\* reads_counter, lines 284-290
fixed_start(par) == par.upstream = {} /\ par.downstream = {}

\* The trim window fastq_parser uses for one read: None ({}) when the read
\* is skipped, else {<<start, end>>}  (lines 229-238).
trim_window(reading, par) ==
    IF fixed_start(par)
    THEN {<<par.start, par.start + par.length>>}
    ELSE LET se == unfixed_starting_place_parser(reading.seq, reading.qual, par)
         IN  IF se[1] # {} /\ se[2] # {}
             THEN LET s0 == CHOOSE x \in se[1] : TRUE
                      e0 == CHOOSE x \in se[2] : TRUE
                  IN  IF e0 < s0 THEN {} ELSE {<<s0, e0>>}
             ELSE {}

---------------------------------------------------------------------------
(* Match Cache + mismatch fallback.                                        *)
(* st is the state fastq_parser threads through one file: keys and counts  *)
(* (the features dict, in insertion order), failed and passed (the cache), *)
(* the five counters and ram_clearance.                                    *)

\* Returns <<st, feature>>.
imperfect_alignment(read, binary_features, mismatch, st) ==
    LET feature == features_all_vs_all(binary_features, read, mismatch)
    IN  IF feature # {}
        THEN <<[st EXCEPT !.counts[CHOOSE f \in feature : TRUE] = @ + 1,
                          !.imperfect_counter = @ + 1], feature>>
        ELSE <<st, feature>>

\* The loop "for miss in mismatch" from its k-th element on.
RECURSIVE mismatch_search_loop(_, _, _, _)
mismatch_search_loop(seq, mismatch, k, st) ==
    IF k > Len(mismatch) THEN st
    ELSE IF seq \in DOMAIN st.passed
    THEN [st EXCEPT !.counts[st.passed[seq]] = @ + 1,
                    !.imperfect_counter = @ + 1]                     \* break
    ELSE IF seq \notin st.failed
    THEN LET r == imperfect_alignment(seq2bin(seq), st.keys, mismatch[k], st)
             st1 == r[1]
             feature == r[2]
         IN  IF st.ram_clearance
             THEN IF feature = {}
                  THEN [st1 EXCEPT !.failed = @ \cup {seq},
                                   !.non_aligned_counter = @ + 1]    \* break
                  ELSE mismatch_search_loop(seq, mismatch, k + 1,
                         [st1 EXCEPT !.passed =
                              (seq :> (CHOOSE f \in feature : TRUE)) @@ @])
             ELSE mismatch_search_loop(seq, mismatch, k + 1, st1)
    ELSE mismatch_search_loop(seq, mismatch, k + 1,
                              [st EXCEPT !.non_aligned_counter = @ + 1])

\* Mutant: the passed map is written whatever ram_clearance says (the write of
\* line 391 one level out of "if ram_clearance")
RECURSIVE mismatch_search_ungated_loop(_, _, _, _)
mismatch_search_ungated_loop(seq, mismatch, k, st) ==
    IF k > Len(mismatch) THEN st
    ELSE IF seq \in DOMAIN st.passed
    THEN [st EXCEPT !.counts[st.passed[seq]] = @ + 1,
                    !.imperfect_counter = @ + 1]
    ELSE IF seq \notin st.failed
    THEN LET r == imperfect_alignment(seq2bin(seq), st.keys, mismatch[k], st)
             st1 == r[1]
             feature == r[2]
         IN  IF feature = {}
             THEN IF st.ram_clearance
                  THEN [st1 EXCEPT !.failed = @ \cup {seq},
                                   !.non_aligned_counter = @ + 1]
                  ELSE mismatch_search_ungated_loop(seq, mismatch, k + 1, st1)
             ELSE mismatch_search_ungated_loop(seq, mismatch, k + 1,
                    [st1 EXCEPT !.passed =
                         (seq :> (CHOOSE f \in feature : TRUE)) @@ @])
    ELSE mismatch_search_ungated_loop(seq, mismatch, k + 1,
                                      [st EXCEPT !.non_aligned_counter = @ + 1])

mismatch_search_handler_ungated(seq, mismatch, st) ==
    mismatch_search_ungated_loop(seq, mismatch, 1, st)

mismatch_search_handler(seq, mismatch, st) ==
    mismatch_search_loop(seq, mismatch, 1, st)

---------------------------------------------------------------------------
(* Stream Processor: one 4-line group of fastq_parser (lines 227-269).     *)

\* [n+1 for n in range(param['miss'])]
mismatch_list(par) == [n \in 1..par.miss |-> n]

\* lines 239-266: the read trimmed to the window se = <<start, end>>
fastq_count(st, seq, quality, par) ==
    IF quality_pass(quality_set(par.phred), quality)
    THEN IF par.mode = "C"
         THEN IF seq \in DOMAIN st.counts
              THEN [st EXCEPT !.counts[seq] = @ + 1,
                              !.perfect_counter = @ + 1]
              ELSE IF mismatch_list(par) # <<>>
              THEN mismatch_search_handler(seq, mismatch_list(par), st)
              ELSE [st EXCEPT !.non_aligned_counter = @ + 1]
         ELSE IF seq \notin DOMAIN st.counts
              THEN [st EXCEPT !.keys = Append(@, seq),
                              !.counts = (seq :> 1) @@ @,
                              !.perfect_counter = @ + 1]
              ELSE [st EXCEPT !.counts[seq] = @ + 1,
                              !.perfect_counter = @ + 1]
    ELSE [st EXCEPT !.quality_failed = @ + 1]

fastq_trimmed(st, reading, par, se) ==
    fastq_count(st, Upper(PySlice(reading.seq, se[1], se[2])),
                PySlice(reading.qual, se[1], se[2]), par)

fastq_window(st, reading, par, w) ==
    IF w = {} THEN st ELSE fastq_trimmed(st, reading, par, CHOOSE x \in w : TRUE)

counted(st) == [st EXCEPT !.reads = @ + 1]

fastq_read(st, reading, par) ==
    counted(fastq_window(st, reading, par, trim_window(reading, par)))

---------------------------------------------------------------------------
(* Scheduler and worker pool *)

\* fastq_parser re-evaluates ram_lock() every 1,000,000 reads (line 272) and
\* the warm-up pass returns at read 200,000 (line 276); both are scaled here
\* to the few reads a modelled file holds.
RamCheckEvery == 2
PreprocessReads == 2

\* hash_reads_parsing: compiled is the sequence of the workers' results
RECURSIVE hash_reads_parsing_loop(_, _, _, _)
hash_reads_parsing_loop(compiled, k, failed, passed) ==
    IF k > Len(compiled) THEN [failed |-> failed, passed |-> passed]
    ELSE hash_reads_parsing_loop(compiled, k + 1,
                                 failed \cup compiled[k].failed,
                                 compiled[k].passed @@ passed)  \* {**passed_reads,**passed}

\* Mutant: {**passed,**passed_reads}, the value already present is kept
RECURSIVE hash_reads_parsing_keep_loop(_, _, _, _)
hash_reads_parsing_keep_loop(compiled, k, failed, passed) ==
    IF k > Len(compiled) THEN [failed |-> failed, passed |-> passed]
    ELSE hash_reads_parsing_keep_loop(compiled, k + 1,
                                      failed \cup compiled[k].failed,
                                      passed @@ compiled[k].passed)

hash_reads_parsing_keep(compiled, failed, passed) ==
    hash_reads_parsing_keep_loop(compiled, 1, failed, passed)

hash_reads_parsing(compiled, failed, passed) ==
    hash_reads_parsing_loop(compiled, 1, failed, passed)

Procs == 1..param.cpu
FileIds == 1..param.nfiles

\* files[start:start+cpu], as 1-based file numbers in order
BatchFiles(from) ==
    [k \in 1..(Min(from + param.cpu, param.nfiles) - from) |-> from + k]

IdleSt ==
    [keys |-> <<>>, counts |-> <<>>, failed |-> {}, passed |-> <<>>,
     perfect_counter |-> 0, imperfect_counter |-> 0, non_aligned_counter |-> 0,
     reads |-> 0, quality_failed |-> 0, ram_clearance |-> TRUE]

IdleProc == [busy |-> FALSE, file |-> 0, preprocess |-> FALSE, st |-> IdleSt]

\* The state fastq_parser starts a file with (lines 214-220); the features
\* reach the process as a pickled copy of main's dict, with all counts 0.
StartSt(task, ram) ==
    LET keys == IF param.mode = "C" THEN param.features ELSE <<>>
    IN  [keys |-> keys,
         counts |-> [f \in Elems(keys) |-> 0],
         failed |-> task.failed, passed |-> task.passed,
         perfect_counter |-> 0, imperfect_counter |-> 0,
         non_aligned_counter |-> 0, reads |-> 0, quality_failed |-> 0,
         ram_clearance |-> ram]

Tasks(fileSeq, pre, failed, passed) ==
    [k \in 1..Len(fileSeq) |->
        [file |-> fileSeq[k], preprocess |-> pre, failed |-> failed, passed |-> passed]]

Pending(fileSeq) == [f \in Elems(fileSeq) |-> {}]

\* The results of fileSeq, in order, once every one is ready (x.get() for x in result)
Compiled(fileSeq) == [k \in 1..Len(fileSeq) |-> CHOOSE r \in result[fileSeq[k]] : TRUE]

AllReady(fileSeq) == \A k \in 1..Len(fileSeq) : result[fileSeq[k]] # {}

\* x.get() re-raises what the worker raised (a result of no values, n = 0):
\* the list comprehension reaches the first such result once the ones before
\* it are ready.
Raises(fileSeq) ==
    \E k \in 1..Len(fileSeq) :
        /\ \A j \in 1..k : result[fileSeq[j]] # {}
        /\ \E r \in result[fileSeq[k]] : r.n = 0

\* The exception leaves aligner_mp_dispenser and main uncaught: the
\* interpreter exits and the pool's daemon processes are terminated.
SchedulerRaises ==
    /\ spc' = "failed"
    /\ queue' = <<>>
    /\ proc' = [p \in Procs |-> IdleProc]
    /\ UNCHANGED <<param, files, eof, failed_reads, passed_reads, start, result,
                   output, fn>>

\* Mutant: "len(files)>=cpu" for "len(files)>cpu"
Dispense_full_pool ==
    /\ spc = "init"
    /\ IF param.nfiles >= param.cpu /\ param.miss # 0
       THEN /\ queue' = Tasks(BatchFiles(0), TRUE, {}, <<>>)
            /\ result' = Pending(BatchFiles(0))
            /\ spc' = "preprocess"
       ELSE /\ spc' = "batch"
            /\ UNCHANGED <<queue, result>>
    /\ UNCHANGED <<param, files, eof, failed_reads, passed_reads, start, proc, output, fn>>

\* aligner_mp_dispenser, lines 1131-1135
Dispense ==
    /\ spc = "init"
    /\ IF param.nfiles > param.cpu /\ param.miss # 0
       THEN /\ queue' = Tasks(BatchFiles(0), TRUE, {}, <<>>)     \* hash_preprocesser
            /\ result' = Pending(BatchFiles(0))
            /\ spc' = "preprocess"
       ELSE /\ spc' = "batch"
            /\ UNCHANGED <<queue, result>>
    /\ UNCHANGED <<param, files, eof, failed_reads, passed_reads, start, proc, output, fn>>

\* hash_preprocesser, lines 1118-1121: the six-name unpacking of zip(*compiled)
\* raises ValueError when every worker returned the eight-value tuple.
PreprocessDone ==
    /\ spc = "preprocess"
    /\ IF Raises(BatchFiles(0))
       THEN SchedulerRaises
       ELSE /\ AllReady(BatchFiles(0))
            /\ LET compiled == Compiled(BatchFiles(0))
               IN  IF \A k \in 1..Len(compiled) : compiled[k].n = 8
                   THEN /\ spc' = "crashed"
                        /\ UNCHANGED <<failed_reads, passed_reads>>
                   ELSE LET m == hash_reads_parsing(compiled, {}, <<>>)
                        IN  /\ failed_reads' = m.failed
                            /\ passed_reads' = m.passed
                            /\ spc' = "batch"
            /\ result' = <<>>
            /\ UNCHANGED <<param, files, eof, start, queue, proc, output, fn>>

\* multiprocess_merger, lines 1074-1092: with miss = 0 it returns without
\* waiting for the results.
SubmitBatch ==
    /\ spc = "batch"
    /\ start < param.nfiles
    /\ queue' = queue \o Tasks(BatchFiles(start), FALSE, failed_reads, passed_reads)
    /\ result' = Pending(BatchFiles(start)) @@ result
    /\ IF param.miss # 0
       THEN spc' = "merge" /\ start' = start
       ELSE spc' = "batch" /\ start' = start + param.cpu
    /\ UNCHANGED <<param, files, eof, failed_reads, passed_reads, proc, output, fn>>

BatchDone ==
    /\ spc = "merge"
    /\ IF Raises(BatchFiles(start))
       THEN SchedulerRaises
       ELSE /\ AllReady(BatchFiles(start))
            /\ LET m == hash_reads_parsing(Compiled(BatchFiles(start)),
                                           failed_reads, passed_reads)
               IN  /\ failed_reads' = m.failed
                   /\ passed_reads' = m.passed
            /\ result' = <<>>
            /\ start' = start + param.cpu
            /\ spc' = "batch"
            /\ UNCHANGED <<param, files, eof, queue, proc, output, fn>>

\* pool.close(); pool.join(), lines 1143-1144
PoolClose ==
    /\ spc = "batch"
    /\ start >= param.nfiles
    /\ spc' = "join"
    /\ UNCHANGED <<param, files, eof, failed_reads, passed_reads, start, queue,
                   proc, result, output, fn>>

PoolJoin ==
    /\ spc = "join"
    /\ queue = <<>>
    /\ \A p \in Procs : ~proc[p].busy
    /\ spc' = "done"
    /\ UNCHANGED <<param, files, eof, failed_reads, passed_reads, start, queue,
                   proc, result, output, fn>>

\* A pool process takes the next task; fastq_parser begins with ram_lock().
TakeTask(p) ==
    /\ spc \notin {"off", "crashed", "failed"}
    /\ ~proc[p].busy
    /\ queue # <<>>
    /\ \E ram \in BOOLEAN :
         proc' = [proc EXCEPT ![p] =
                    [busy |-> TRUE, file |-> Head(queue).file,
                     preprocess |-> Head(queue).preprocess,
                     st |-> StartSt(Head(queue), ram)]]
    /\ queue' = Tail(queue)
    /\ UNCHANGED <<param, files, eof, failed_reads, passed_reads, spc, start,
                   result, output, fn>>

AtPreprocessReturn(p) ==
    proc[p].preprocess /\ proc[p].st.reads = PreprocessReads

\* One 4-line group of the file (one iteration of fastq_parser's loop body
\* with len(reading) == 4), up to the preprocess test of line 275.
ReadRecord(p) ==
    /\ proc[p].busy
    /\ ~AtPreprocessReturn(p)
    /\ LET f == proc[p].file
           pos == proc[p].st.reads
       IN  /\ \E reading \in param.pool :
                /\ IF pos < Len(files[f])
                   THEN reading = files[f][pos + 1] /\ files' = files
                   ELSE /\ ~eof[f]
                        /\ pos < param.maxreads
                        /\ files' = [files EXCEPT ![f] = Append(@, reading)]
                /\ \E st1 \in {fastq_read(proc[p].st, reading, param)}, ram \in BOOLEAN :
                      /\ (st1.reads % RamCheckEvery # 0 => ram = st1.ram_clearance)
                      /\ proc' = [proc EXCEPT ![p].st =
                                    [st1 EXCEPT !.ram_clearance = ram]]
    /\ UNCHANGED <<param, eof, failed_reads, passed_reads, spc, start, queue,
                   result, output, fn>>

\* The warm-up return of line 277: six values.
PreprocessReturn(p) ==
    /\ proc[p].busy
    /\ AtPreprocessReturn(p)
    /\ result' = [result EXCEPT ![proc[p].file] =
                    {[n |-> 6, failed |-> proc[p].st.failed, passed |-> proc[p].st.passed]}]
    /\ proc' = [proc EXCEPT ![p] = IdleProc]
    /\ UNCHANGED <<param, files, eof, failed_reads, passed_reads, spc, start,
                   queue, output, fn>>

\* End of the stream (line 282: eight values).  Outside the warm-up pass it
\* is aligner that called: it writes the file's table and returns the cache.
EndOfFile(p) ==
    /\ proc[p].busy
    /\ ~AtPreprocessReturn(p)
    /\ LET f == proc[p].file
           st == proc[p].st
       IN  /\ st.reads = Len(files[f])
           /\ eof' = [eof EXCEPT ![f] = TRUE]
           /\ result' = [result EXCEPT ![f] =
                           {[n |-> IF proc[p].preprocess THEN 8 ELSE 2,
                             failed |-> st.failed, passed |-> st.passed]}]
           /\ output' = IF proc[p].preprocess THEN output
                        ELSE [output EXCEPT ![f] =
                                {[reads |-> st.reads,
                                  perfect_counter |-> st.perfect_counter,
                                  imperfect_counter |-> st.imperfect_counter,
                                  non_aligned_counter |-> st.non_aligned_counter,
                                  quality_failed |-> st.quality_failed,
                                  counts |-> st.counts]}]
    /\ proc' = [proc EXCEPT ![p] = IdleProc]
    /\ UNCHANGED <<param, files, failed_reads, passed_reads, spc, start, queue, fn>>

\* reads_counter raises while the process reads its file (a corrupt or
\* truncated file): nothing catches it, the pool stores the exception in the
\* task's AsyncResult and the process goes back to the pool.
WorkerFails(p) ==
    /\ proc[p].busy
    /\ result' = [result EXCEPT ![proc[p].file] =
                    {[n |-> 0, failed |-> {}, passed |-> <<>>]}]
    /\ proc' = [proc EXCEPT ![p] = IdleProc]
    /\ UNCHANGED <<param, files, eof, failed_reads, passed_reads, spc, start,
                   queue, output, fn>>

---------------------------------------------------------------------------
(* Configurations and inputs *)

HighQ == 73     \* 'I', Phred 40
LowQ == 33      \* '!', Phred 0

Qual(n) == [i \in 1..n |-> HighQ]

Rd(seq) == [seq |-> seq, qual |-> Qual(Len(seq))]

AAAA == <<"A", "A", "A", "A">>
CCCC == <<"C", "C", "C", "C">>
AAAT == <<"A", "A", "A", "T">>
AATT == <<"A", "A", "T", "T">>
AACC == <<"A", "A", "C", "C">>
TTTT == <<"T", "T", "T", "T">>

\* Reads for the fixed window [0, 4) against the features AAAA and CCCC: exact,
\* one and two mismatches from AAAA alone, two mismatches from both, far from
\* both, a read shorter than the window, a low-quality base, lower case.
FixedPool ==
    {Rd(AAAA), Rd(CCCC), Rd(AAAT), Rd(AATT), Rd(AACC), Rd(TTTT),
     Rd(<<"A", "A", "A">>),
     [seq |-> AAAA, qual |-> <<HighQ, LowQ, HighQ, HighQ>>],
     Rd(<<"a", "a", "a", "a">>)}

\* Reads for the anchors TT (upstream) and CT (downstream) around a window of 4.
AnchorPool ==
    {Rd(<<"T", "T", "A", "A", "A", "A", "C", "T", "A">>),
     Rd(<<"T", "T", "A", "A", "A", "T", "C", "T", "A">>),
     Rd(<<"A", "A", "A", "A", "C", "T", "A">>),
     Rd(<<"A", "A", "C", "T", "A">>),
     Rd(<<"C", "T", "T", "T", "A", "A", "A", "A", "C">>),
     Rd(<<"A", "A", "A", "A", "A", "A">>),
     [seq |-> <<"T", "T", "A", "A", "A", "A", "C", "T", "A">>,
      qual |-> <<LowQ, HighQ, HighQ, HighQ, HighQ, HighQ, HighQ, LowQ, HighQ>>],
     [seq |-> <<"T", "T", "A", "A", "A", "A", "C", "T", "A">>,
      qual |-> <<HighQ, HighQ, HighQ, LowQ, HighQ, HighQ, HighQ, HighQ, HighQ>>]}

SmallPool == {Rd(AAAA), Rd(AAAT), Rd(AATT), Rd(TTTT)}

\* One read that the first mismatch level resolves and one that only the
\* second level could
TinyPool == {Rd(AAAT), Rd(AATT)}

BaseParam ==
    [miss |-> 1, phred |-> 30, qual_up |-> 30, qual_down |-> 30,
     start |-> 0, length |-> 4, upstream |-> {}, downstream |-> {},
     miss_search_up |-> 0, miss_search_down |-> 0, mode |-> "C",
     cpu |-> 1, nfiles |-> 1, features |-> <<AAAA, CCCC>>, pool |-> FixedPool,
     maxreads |-> MaxReads]

Budgets == 0..MaxMiss

SingleFile == {[BaseParam EXCEPT !.miss = m] : m \in Budgets}

Anchors == {<<{<<"T", "T">>}, {}>>, <<{}, {<<"C", "T">>}>>,
            <<{<<"t", "T">>}, {<<"C", "T">>}>>}

AnchorFile ==
    {[BaseParam EXCEPT !.miss = m, !.upstream = a[1], !.downstream = a[2],
                       !.pool = AnchorPool] : m \in Budgets, a \in Anchors}

ExtractFile == {[BaseParam EXCEPT !.mode = "EC", !.pool = SmallPool]}

TwoFiles ==
    {[BaseParam EXCEPT !.miss = m, !.nfiles = 2, !.pool = TinyPool,
                       !.maxreads = MaxBatchReads] : m \in Budgets}

Batches ==
    {[BaseParam EXCEPT !.miss = m, !.nfiles = 3, !.cpu = 2, !.pool = TinyPool,
                       !.maxreads = MaxBatchReads] : m \in Budgets}

\* As many files as the pool has processes
FullPool ==
    {[BaseParam EXCEPT !.miss = m, !.nfiles = 2, !.cpu = 2, !.pool = TinyPool,
                       !.maxreads = MaxBatchReads] : m \in Budgets}

NoCall == [op |-> "none"]

InitRun(scenarios) ==
    /\ param \in scenarios
    /\ files = [f \in FileIds |-> <<>>]
    /\ eof = [f \in FileIds |-> FALSE]
    /\ failed_reads = {}
    /\ passed_reads = <<>>
    /\ spc = "init"
    /\ start = 0
    /\ queue = <<>>
    /\ proc = [p \in Procs |-> IdleProc]
    /\ result = <<>>
    /\ output = [f \in FileIds |-> {}]
    /\ fn = NoCall

Init == InitRun(SingleFile \cup AnchorFile \cup ExtractFile \cup TwoFiles)

InitSched == InitRun(Batches)

Next ==
    \/ Dispense
    \/ PreprocessDone
    \/ SubmitBatch
    \/ BatchDone
    \/ PoolClose
    \/ PoolJoin
    \/ \E p \in Procs : TakeTask(p)
    \/ \E p \in Procs : ReadRecord(p)
    \/ \E p \in Procs : PreprocessReturn(p)
    \/ \E p \in Procs : EndOfFile(p)

\* One file at a time, then two files in a pool of one
Spec == Init /\ [][Next]_vars

\* Batches of files in a pool of two
SpecSched == InitSched /\ [][Next]_vars

\* Batches of files in a pool of two, and a pool that takes every file at once
SpecWarm == InitRun(Batches \cup FullPool) /\ [][Next]_vars

NextFail ==
    \/ Next
    \/ \E p \in Procs : WorkerFails(p)

\* Batches of files in a pool of two, with files a worker may fail on
SpecFail == InitSched /\ [][NextFail]_vars

---------------------------------------------------------------------------
(* Single calls of the pure functions *)

FnBases == {"A", "C"}

FnSeqs == SeqsUpTo(FnBases, MaxLen)

\* Lists of distinct feature keys, as the keys of a dict are
FnFeatureLists ==
    {fs \in SeqsUpTo(FnSeqs, MaxFeat) :
        \A i, j \in 1..Len(fs) : i # j => fs[i] # fs[j]}

\* The Phred+33 quality symbols '!'..'I' (scores 0..40), as ASCII codes
PhredChars == 33..73

PhredScore(c) == c - 33

Thresholds == 1..41

BinarySubtractCalls ==
    {[op |-> "binary_subtract", array1 |-> seq2bin(a), array2 |-> seq2bin(b),
      mismatch |-> l, done |-> FALSE, out |-> 0] :
        a \in FnSeqs, b \in FnSeqs, l \in 0..MaxLimit}

FeaturesAllVsAllCalls ==
    {[op |-> "features_all_vs_all", binary_features |-> fs, read |-> seq2bin(r),
      mismatch |-> l, done |-> FALSE, out |-> {}] :
        fs \in FnFeatureLists, r \in FnSeqs, l \in 0..MaxLimit}

QualityCalls ==
    {[op |-> "quality", phred |-> t, quality |-> q, done |-> FALSE, out |-> FALSE] :
        t \in Thresholds, q \in SeqsUpTo(PhredChars, MaxQualLen)}

InitFn(calls) ==
    /\ fn \in calls
    /\ param = BaseParam
    /\ files = <<>>
    /\ eof = <<>>
    /\ failed_reads = {}
    /\ passed_reads = <<>>
    /\ spc = "off"
    /\ start = 0
    /\ queue = <<>>
    /\ proc = <<>>
    /\ result = <<>>
    /\ output = <<>>

CallBinarySubtract ==
    /\ fn.op = "binary_subtract" /\ ~fn.done
    /\ fn' = [fn EXCEPT !.done = TRUE,
                        !.out = binary_subtract(fn.array1, fn.array2, fn.mismatch)]
    /\ UNCHANGED runVars

CallFeaturesAllVsAll ==
    /\ fn.op = "features_all_vs_all" /\ ~fn.done
    /\ fn' = [fn EXCEPT !.done = TRUE,
                        !.out = features_all_vs_all(fn.binary_features, fn.read,
                                                    fn.mismatch)]
    /\ UNCHANGED runVars

\* initializer builds the rejecting set, fastq_parser tests the window (line 242)
CallQuality ==
    /\ fn.op = "quality" /\ ~fn.done
    /\ fn' = [fn EXCEPT !.done = TRUE,
                        !.out = quality_pass(quality_set(fn.phred), fn.quality)]
    /\ UNCHANGED runVars

\* Caches for a merge: passed maps from two trimmed sequences to the two
\* features, failed sets over a third sequence
PassedMaps == UNION {[D -> {AAAA, CCCC}] : D \in SUBSET {AAAT, AATT}}

Caches == [failed : SUBSET {TTTT}, passed : PassedMaps]

MergeCalls ==
    {[op |-> "hash_reads_parsing", compiled |-> c, failed |-> m.failed,
      passed |-> m.passed, done |-> FALSE, out |-> m] :
        c \in SeqsUpTo(Caches, MaxWorkers), m \in Caches}

CallMerge ==
    /\ fn.op = "hash_reads_parsing" /\ ~fn.done
    /\ fn' = [fn EXCEPT !.done = TRUE,
                        !.out = hash_reads_parsing(fn.compiled, fn.failed, fn.passed)]
    /\ UNCHANGED runVars

BorderFinderCalls ==
    {[op |-> "border_finder", seq |-> seq2bin(a), read |-> seq2bin(r),
      mismatch |-> l, done |-> FALSE, out |-> {}] :
        a \in FnSeqs, r \in SeqsUpTo(FnBases, MaxReadLen), l \in 0..MaxLimit}

CallBorderFinder ==
    /\ fn.op = "border_finder" /\ ~fn.done
    /\ fn' = [fn EXCEPT !.done = TRUE,
                        !.out = border_finder(fn.seq, fn.read, fn.mismatch)]
    /\ UNCHANGED runVars

\* Reads for the Record Extractor: every sequence over three bases, with
\* trusted bases throughout or one untrusted base
WindowBases == {"A", "C", "T"}

WindowReads ==
    {[seq |-> r, qual |-> [i \in 1..Len(r) |-> IF i = low THEN LowQ ELSE HighQ]] :
        r \in SeqsUpTo(WindowBases, MaxReadLen), low \in 0..MaxReadLen}

AnchorBudgets == 0..1

WindowParams ==
    {[BaseParam EXCEPT !.upstream = a[1], !.downstream = a[2],
                       !.miss_search_up = l, !.miss_search_down = l] :
        a \in Anchors, l \in AnchorBudgets}

WindowCalls ==
    {[op |-> "window", reading |-> rd, par |-> par, done |-> FALSE,
      out |-> {}, seq |-> <<>>] :
        rd \in WindowReads, par \in WindowParams}

\* fastq_parser, lines 228-239: the window of one read and the sequence cut
\* out of it
CallWindow ==
    /\ fn.op = "window" /\ ~fn.done
    /\ \E w \in {trim_window(fn.reading, fn.par)} :
         fn' = [fn EXCEPT !.done = TRUE, !.out = w,
                          !.seq = IF w = {} THEN <<>>
                                  ELSE Upper(PySlice(fn.reading.seq,
                                                     (CHOOSE x \in w : TRUE)[1],
                                                     (CHOOSE x \in w : TRUE)[2]))]
    /\ UNCHANGED runVars

NextFn == CallBinarySubtract \/ CallFeaturesAllVsAll

\* The Matcher's functions on every input within the bounds
SpecFn == InitFn(BinarySubtractCalls \cup FeaturesAllVsAllCalls) /\ [][NextFn]_vars

\* The Quality Gate on every threshold and every window within the bounds
SpecQual == InitFn(QualityCalls) /\ [][CallQuality]_vars

\* Thresholds as the front ends receive them
GivenThresholds == 0..MaxThreshold

OptThresholds == {{}} \cup {{v} : v \in GivenThresholds}

ThresholdCalls ==
    {[op |-> "initializer", cmd |-> TRUE, ph |-> a, qsu |-> b, qsd |-> c,
      done |-> FALSE, out |-> initializer(BaseParam)] :
        a \in OptThresholds, b \in OptThresholds, c \in OptThresholds}
    \cup
    {[op |-> "initializer", cmd |-> FALSE, ph |-> {a}, qsu |-> {b}, qsd |-> {c},
      done |-> FALSE, out |-> initializer(BaseParam)] :
        a \in GivenThresholds, b \in GivenThresholds, c \in GivenThresholds}

\* main, line 1151: initializer(input_parser()), the interactive front end
\* standing in when input_parser returns None
CallInitializer ==
    /\ fn.op = "initializer" /\ ~fn.done
    /\ fn' = [fn EXCEPT !.done = TRUE,
                        !.out = IF fn.cmd
                                THEN initializer(input_parser(fn))
                                ELSE initializer(inputs_handler(
                                       [phred |-> CHOOSE v \in fn.ph : TRUE,
                                        qual_up |-> CHOOSE v \in fn.qsu : TRUE,
                                        qual_down |-> CHOOSE v \in fn.qsd : TRUE]))]
    /\ UNCHANGED runVars

\* Worker counts given with --cp (any integer) or not at all, on machines of
\* 1 .. MaxCores cores
CpuCalls ==
    {[op |-> "cpu_counter", cpu |-> c, available_cpu |-> n, done |-> FALSE, out |-> 0] :
        c \in {{}} \cup {{k} : k \in (0 - 1)..(MaxCores + 1)}, n \in 1..MaxCores}

CallCpuCounter ==
    /\ fn.op = "cpu_counter" /\ ~fn.done
    /\ fn' = [fn EXCEPT !.done = TRUE, !.out = cpu_counter(fn.cpu, fn.available_cpu)]
    /\ UNCHANGED runVars

NextConfig == CallInitializer \/ CallCpuCounter

\* The configuration front ends on every threshold and worker count within
\* the bounds
SpecConfig == InitFn(ThresholdCalls \cup CpuCalls) /\ [][NextConfig]_vars

NextAnchor == CallBorderFinder \/ CallWindow

\* The Anchor Locator and the Record Extractor on every anchor, read and
\* limit within the bounds
SpecAnchor == InitFn(BorderFinderCalls \cup WindowCalls) /\ [][NextAnchor]_vars

\* The cache merge on every shared cache and every list of worker caches
\* within the bounds
SpecMerge == InitFn(MergeCalls) /\ [][CallMerge]_vars

---------------------------------------------------------------------------
(* Reference notions used by the properties *)

\* Number of positions at which two equal-length sequences differ
Hamming(a, b) == Cardinality({i \in 1..Len(a) : a[i] # b[i]})

\* Indices of the features of the list fs within `limit` of the encoded read
Within(fs, read, limit) ==
    {k \in 1..Len(fs) : Len(fs[k]) = Len(read)
                         /\ Hamming(seq2bin(fs[k]), read) <= limit}

---------------------------------------------------------------------------
(* Properties of the Matcher *)

\* C3: on a read that has the length of every feature, features_all_vs_all
\* returns a feature key iff exactly one feature is within the limit, and then
\* that feature; with two or more within the limit (even when one of them is
\* closer, or exact) and with none it returns None.
C3_UniqueMatchOnly ==
    (fn.op = "features_all_vs_all" /\ fn.done
     /\ \A k \in 1..Len(fn.binary_features) : Len(fn.binary_features[k]) = Len(fn.read))
    => LET within == Within(fn.binary_features, fn.read, fn.mismatch)
       IN  /\ Cardinality(within) = 1
                => fn.out = {fn.binary_features[k] : k \in within}
           /\ Cardinality(within) # 1 => fn.out = {}

\* C3 witness: two features within the limit, one of them exact, and no match
C3_Witness ==
    /\ fn.op = "features_all_vs_all" /\ fn.done
    /\ Len(fn.read) = MaxLen
    /\ \A k \in 1..Len(fn.binary_features) : Len(fn.binary_features[k]) = Len(fn.read)
    /\ Cardinality(Within(fn.binary_features, fn.read, fn.mismatch)) >= 2
    /\ Within(fn.binary_features, fn.read, 0) # {}
    /\ fn.out = {}

\* C4: for equal-length encoded sequences, binary_subtract returns 1 iff their
\* Hamming distance is at most the limit.
C4_MismatchCountIsHamming ==
    (fn.op = "binary_subtract" /\ fn.done /\ Len(fn.array1) = Len(fn.array2))
    => (fn.out = 1 <=> Hamming(fn.array1, fn.array2) <= fn.mismatch)

\* C4 witness: a pair at exactly the limit, accepted
C4_Witness ==
    /\ fn.op = "binary_subtract" /\ fn.done
    /\ Len(fn.array1) = Len(fn.array2)
    /\ fn.mismatch >= 1
    /\ Hamming(fn.array1, fn.array2) = fn.mismatch
    /\ fn.out = 1

---------------------------------------------------------------------------
(* Properties of the Quality Gate *)

\* C5: a window passes the gate iff every base has a Phred score >= the
\* configured minimum (symbol = Phred + 33).
C5_GateIsPhredThreshold ==
    (fn.op = "quality" /\ fn.done)
    => (fn.out <=> \A i \in 1..Len(fn.quality) : PhredScore(fn.quality[i]) >= fn.phred)

---------------------------------------------------------------------------
(* Notions about one read of one process *)

\* Process p consumed one 4-line group in this step
ReadStep(p) ==
    /\ p \in DOMAIN proc /\ p \in DOMAIN proc'
    /\ proc[p].busy /\ proc'[p].busy
    /\ proc'[p].st.reads = proc[p].st.reads + 1

\* ... while counting a file for its table, not warming the cache up
CountingStep(p) == ReadStep(p) /\ ~proc[p].preprocess

\* ... and this is the group it consumed
TheRead(p) == files'[proc[p].file][proc'[p].st.reads]

\* The trimmed sequence and quality of a read whose window is resolved
WindowSeq(reading) ==
    LET se == CHOOSE x \in trim_window(reading, param) : TRUE
    IN  Upper(PySlice(reading.seq, se[1], se[2]))

WindowQual(reading) ==
    LET se == CHOOSE x \in trim_window(reading, param) : TRUE
    IN  PySlice(reading.qual, se[1], se[2])

GoodQuality(quality) ==
    \A i \in 1..Len(quality) : PhredScore(quality[i]) >= param.phred

\* A read that reaches the mismatch fallback: counting mode, a budget of at
\* least 1, a resolved window of trusted bases that is no feature key
ReachesFallback(reading) ==
    /\ param.mode = "C" /\ param.miss >= 1
    /\ trim_window(reading, param) # {}
    /\ GoodQuality(WindowQual(reading))
    /\ WindowSeq(reading) \notin Elems(param.features)

\* The features within the full configured budget of a trimmed sequence
WithinBudget(seq) == Within(param.features, seq2bin(seq), param.miss)

RECURSIVE SumOver(_, _)
SumOver(f, S) ==
    IF S = {} THEN 0
    ELSE LET x == CHOOSE y \in S : TRUE IN f[x] + SumOver(f, S \ {x})

SumCounts(st) == SumOver(st.counts, DOMAIN st.counts)

\* What a file's table reports: the per-feature counts and the four counters
Counters(st) ==
    [counts |-> st.counts,
     perfect_counter |-> st.perfect_counter,
     imperfect_counter |-> st.imperfect_counter,
     non_aligned_counter |-> st.non_aligned_counter,
     quality_failed |-> st.quality_failed]

\* fastq_parser over the reads rs from state st, the RAM Governor giving the
\* answer st.ram_clearance throughout
RECURSIVE RunReads(_, _, _)
RunReads(rs, k, st) ==
    IF k > Len(rs) THEN st
    ELSE RunReads(rs, k + 1, fastq_read(st, rs[k], param))

\* The cache the file of process p was started with
StartCache(p) ==
    IF proc[p].preprocess THEN [failed |-> {}, passed |-> <<>>]
    ELSE [failed |-> failed_reads, passed |-> passed_reads]

---------------------------------------------------------------------------
(* Properties of the mismatch fallback *)

\* C1: with an empty cache and the RAM Governor permitting growth, a read that
\* reaches the fallback and is within the budget of exactly one feature is
\* counted for that feature and as mismatch-matched, and not as unmatched.
C1_WithinBudgetIsCounted ==
    [][\A p \in Procs :
         (/\ CountingStep(p)
          /\ ReachesFallback(TheRead(p))
          /\ proc[p].st.failed = {} /\ DOMAIN proc[p].st.passed = {}
          /\ proc[p].st.ram_clearance
          /\ Cardinality(WithinBudget(WindowSeq(TheRead(p)))) = 1)
         => \A k \in WithinBudget(WindowSeq(TheRead(p))) :
              /\ proc'[p].st.counts[param.features[k]]
                    > proc[p].st.counts[param.features[k]]
              /\ proc'[p].st.imperfect_counter > proc[p].st.imperfect_counter
              /\ proc'[p].st.non_aligned_counter = proc[p].st.non_aligned_counter]_vars

\* C2: one read raises the sum of the feature counts by at most 1 and the
\* mismatch-matched counter by at most 1.
C2_NoDoubleCount ==
    [][\A p \in Procs :
         (CountingStep(p) /\ param.mode = "C")
         => /\ SumCounts(proc'[p].st) <= SumCounts(proc[p].st) + 1
            /\ proc'[p].st.imperfect_counter <= proc[p].st.imperfect_counter + 1]_vars

\* C6: the counts and counters of a file do not depend on whether the RAM
\* Governor permits or denies cache growth.
C6_RamNeverChangesCounts ==
    \A p \in DOMAIN proc :
        (proc[p].busy /\ ~proc[p].preprocess)
        => LET rs == SubSeq(files[proc[p].file], 1, proc[p].st.reads)
               c == StartCache(p)
           IN  Counters(RunReads(rs, 1, StartSt(c, TRUE)))
                 = Counters(RunReads(rs, 1, StartSt(c, FALSE)))

\* C7: in anchor mode a read with no resolvable window adds exactly 1 to the
\* quality-rejected counter and changes nothing else.
C7_UnresolvedIsQualityRejected ==
    [][\A p \in Procs :
         (/\ CountingStep(p)
          /\ ~fixed_start(param)
          /\ trim_window(TheRead(p), param) = {})
         => /\ proc'[p].st.quality_failed = proc[p].st.quality_failed + 1
            /\ proc'[p].st.counts = proc[p].st.counts
            /\ proc'[p].st.perfect_counter = proc[p].st.perfect_counter
            /\ proc'[p].st.imperfect_counter = proc[p].st.imperfect_counter
            /\ proc'[p].st.non_aligned_counter = proc[p].st.non_aligned_counter]_vars

\* C8: a read in neither cache set for which no unique feature is within the
\* budget adds exactly 1 to the unmatched counter, whatever the RAM Governor says.
C8_UnmatchedEitherWay ==
    [][\A p \in Procs :
         (/\ CountingStep(p)
          /\ ReachesFallback(TheRead(p))
          /\ WindowSeq(TheRead(p)) \notin proc[p].st.failed
          /\ WindowSeq(TheRead(p)) \notin DOMAIN proc[p].st.passed
          /\ Cardinality(WithinBudget(WindowSeq(TheRead(p)))) # 1)
         => proc'[p].st.non_aligned_counter = proc[p].st.non_aligned_counter + 1]_vars

---------------------------------------------------------------------------
(* Properties of the Match Cache *)

Disjoint(failed, passed) == failed \cap DOMAIN passed = {}

\* C9: no sequence is at once in the failed set and a key of the passed map:
\* in the scheduler's cache, in every process, in every result handed back.
C9_CacheDisjoint ==
    /\ Disjoint(failed_reads, passed_reads)
    /\ \A p \in DOMAIN proc : Disjoint(proc[p].st.failed, proc[p].st.passed)
    /\ \A f \in DOMAIN result : \A r \in result[f] : Disjoint(r.failed, r.passed)
    /\ \A k \in 1..Len(queue) : Disjoint(queue[k].failed, queue[k].passed)

\* C9 witness: after the warm-up merge and a batch merge of two workers, the
\* merged cache holds failed and passed entries
C9_Witness ==
    /\ param.cpu >= 2 /\ param.nfiles > param.cpu
    /\ spc = "batch" /\ start >= param.cpu
    /\ failed_reads # {} /\ DOMAIN passed_reads # {}

\* C10: no sequence of a failed set matches a feature uniquely within the
\* full configured budget.
C10_FailedMatchesNothing ==
    /\ \A s \in failed_reads : Cardinality(WithinBudget(s)) # 1
    /\ \A p \in DOMAIN proc :
         \A s \in proc[p].st.failed : Cardinality(WithinBudget(s)) # 1

---------------------------------------------------------------------------
(* Properties of the cache merge *)

\* The maps of a merge in the order they are written: the shared one first
MergeMaps == <<fn.passed>> \o [k \in 1..Len(fn.compiled) |-> fn.compiled[k].passed]

MergedFailed == fn.failed \cup UNION {fn.compiled[k].failed : k \in 1..Len(fn.compiled)}

MergedKeys == UNION {DOMAIN MergeMaps[k] : k \in 1..Len(MergeMaps)}

\* The last map of the merge that holds the key
LastWriter(key) ==
    CHOOSE k \in 1..Len(MergeMaps) :
        /\ key \in DOMAIN MergeMaps[k]
        /\ \A j \in (k + 1)..Len(MergeMaps) : key \notin DOMAIN MergeMaps[j]

---------------------------------------------------------------------------
(* Properties of the Scheduler *)

\* The batch a task belongs to: the warm-up pass is batch -1, file f of the
\* real pass is in batch (f - 1) \div cpu
BatchOf(file, preprocess) ==
    IF preprocess THEN 0 - 1 ELSE (file - 1) \div param.cpu

\* The batches with a file handed to the pool and not yet completed
InFlight ==
    {BatchOf(queue[k].file, queue[k].preprocess) : k \in 1..Len(queue)}
    \cup {BatchOf(proc[p].file, proc[p].preprocess) :
             p \in {q \in DOMAIN proc : proc[q].busy}}

\* The batches with a file being read by a pool process
Running ==
    {BatchOf(proc[p].file, proc[p].preprocess) :
       p \in {q \in DOMAIN proc : proc[q].busy}}

\* C12: files of two different batches are never in flight at the same time:
\* no file of a batch is handed to the pool, let alone read, while a file of
\* an earlier batch is still queued or being read, whatever the budget.
C12_BatchBarrier ==
    /\ Cardinality(InFlight) <= 1
    /\ Cardinality(Running) <= 1

\* A worker's exception is held in a result of the scheduler
WorkerFailed == \E f \in DOMAIN result : \E r \in result[f] : r.n = 0

\* C13: the run never finishes as successful (pool joined, main moving on to
\* compile the tables) with the exception of a failed worker left unobserved,
\* whatever the budget.
C13_FailureSurfaces == spc = "done" => ~WorkerFailed

---------------------------------------------------------------------------
(* Properties of the Anchor Locator *)

\* The positions p of 0 .. r - s - 1 at which the encoded anchor and
\* read[p .. p+s) differ in at most `limit` positions
AnchorAt(seq, read, limit) ==
    {p \in 0..(Len(read) - Len(seq) - 1) :
        Hamming(seq, SubSeq(read, p + 1, p + Len(seq))) <= limit}

Lowest(S) == CHOOSE p \in S : \A q \in S : p <= q

\* C15: border_finder returns the lowest index of 0 .. r - s - 1 at which the
\* anchor matches within the limit, and None when there is none (r <= s and
\* the empty read included); the match it returns ends inside the read.
C15_LowestAnchorInRange ==
    (fn.op = "border_finder" /\ fn.done)
    => LET at == AnchorAt(fn.seq, fn.read, fn.mismatch)
       IN  /\ at = {} => fn.out = {}
           /\ at # {} => fn.out = {Lowest(at)}
           /\ \A p \in fn.out : p + Len(fn.seq) <= Len(fn.read)

\* C15 witness: the anchor matches at two positions and in the read's last
\* s bases too, and the lowest of the two positions is returned, past index 0
C15_Witness ==
    /\ fn.op = "border_finder" /\ fn.done
    /\ Len(fn.seq) = MaxLen /\ fn.mismatch >= 1
    /\ Cardinality(AnchorAt(fn.seq, fn.read, fn.mismatch)) >= 2
    /\ Hamming(fn.seq, SubSeq(fn.read, Len(fn.read) - Len(fn.seq) + 1, Len(fn.read)))
          <= fn.mismatch
    /\ \E p \in fn.out : p >= 1

---------------------------------------------------------------------------
(* Properties of the Record Extractor *)

\* The encoded, upper-cased anchor of a configuration
UpAnchor(par) == seq2bin(Upper(CHOOSE u \in par.upstream : TRUE))

\* Every base of quality[a .. b) has a Phred score of at least t
Trusted(quality, a, b, t) ==
    \A i \in (a + 1)..Min(b, Len(quality)) : PhredScore(quality[i]) >= t

\* C18: upstream-only anchor mode: when the anchor is first matched at p (the
\* lowest position of 0 .. r - s - 1 within the anchor's budget) and the
\* anchor's bases are trusted, the window is [p + s, p + s + length) and the
\* extracted sequence is the read from right after the anchor match.
C18_WindowAfterUpstreamAnchor ==
    (/\ fn.op = "window" /\ fn.done
     /\ fn.par.upstream # {} /\ fn.par.downstream = {}
     /\ AnchorAt(UpAnchor(fn.par), seq2bin(fn.reading.seq), fn.par.miss_search_up) # {})
    => LET s == Len(UpAnchor(fn.par))
           p == Lowest(AnchorAt(UpAnchor(fn.par), seq2bin(fn.reading.seq),
                                fn.par.miss_search_up))
       IN  Trusted(fn.reading.qual, p, p + s, fn.par.qual_up)
           => /\ fn.out = {<<p + s, p + s + fn.par.length>>}
              /\ fn.seq = PySlice(fn.reading.seq, p + s, p + s + fn.par.length)

\* C18 witness: anchor TT, length 4, the read TTAAAA, and AAAA extracted
C18_Witness ==
    /\ fn.op = "window" /\ fn.done
    /\ fn.par.upstream = {<<"T", "T">>} /\ fn.par.downstream = {}
    /\ fn.par.length = 4
    /\ fn.reading.seq = <<"T", "T", "A", "A", "A", "A">>
    /\ fn.out = {<<2, 6>>}
    /\ fn.seq = AAAA

---------------------------------------------------------------------------
(* Properties of the configuration *)

\* C16: a threshold given as 0 counts as 1, for the main, the upstream and
\* the downstream threshold, on the command line and in the interactive front
\* end: its rejecting set is the one built from 1.
C16_ZeroThresholdIsOne ==
    (fn.op = "initializer" /\ fn.done)
    => /\ fn.ph = {0} => fn.out.quality_set = quality_set(1)
       /\ fn.qsu = {0} => fn.out.quality_set_up = quality_set(1)
       /\ fn.qsd = {0} => fn.out.quality_set_down = quality_set(1)

\* The default pool size on a machine of n cores
DefaultCpu(n) == IF n >= 3 THEN n - 2 ELSE 1

\* C17: with no worker count the pool size is N-2 for N >= 3 and 1 for N = 2
\* and N = 1; a count above N is capped to N; a count that is no positive
\* integer gives the default; the pool size is always between 1 and N.
C17_PoolSize ==
    (fn.op = "cpu_counter" /\ fn.done)
    => /\ fn.cpu = {} => fn.out = DefaultCpu(fn.available_cpu)
       /\ \A c \in fn.cpu :
            /\ c > fn.available_cpu => fn.out = fn.available_cpu
            /\ c < 1 => fn.out = DefaultCpu(fn.available_cpu)
       /\ fn.out \in 1..fn.available_cpu

---------------------------------------------------------------------------
(* Properties of the warm-up pass *)

NeedsWarmUp == param.nfiles > param.cpu /\ param.miss # 0

\* The tasks handed to the pool and not completed, queued or running
TasksInFlight ==
    {[file |-> queue[k].file, preprocess |-> queue[k].preprocess] : k \in 1..Len(queue)}
    \cup {[file |-> proc[p].file, preprocess |-> proc[p].preprocess] :
             p \in {q \in DOMAIN proc : proc[q].busy}}

WarmInFlight == \E t \in TasksInFlight : t.preprocess

\* While a warm-up task is in flight: the run is one that needs the warm-up,
\* no file of a real batch has been dispatched, no table is written, the
\* scheduler's cache is still empty, and the task is on one of the first
\* `cpu` files of the size-ordered list
WarmUpScope ==
    WarmInFlight
    => /\ NeedsWarmUp
       /\ spc = "preprocess" /\ start = 0
       /\ \A t \in TasksInFlight : t.preprocess /\ t.file \in 1..param.cpu
       /\ \A f \in FileIds : output[f] = {}
       /\ failed_reads = {} /\ DOMAIN passed_reads = {}

\* A warm-up task starts from an empty cache and reads no further than the
\* warm-up length
WarmUpTask ==
    /\ \A k \in 1..Len(queue) :
         queue[k].preprocess => queue[k].failed = {} /\ DOMAIN queue[k].passed = {}
    /\ \A p \in DOMAIN proc :
         (proc[p].busy /\ proc[p].preprocess)
         => /\ proc[p].st.reads <= PreprocessReads
            /\ proc[p].st.reads = 0
                 => proc[p].st.failed = {} /\ DOMAIN proc[p].st.passed = {}

\* A file of a real batch starts with every feature count at 0
FreshCounts ==
    \A p \in DOMAIN proc :
        (proc[p].busy /\ ~proc[p].preprocess /\ proc[p].st.reads = 0)
        => \A f \in DOMAIN proc[p].st.counts : proc[p].st.counts[f] = 0

\* The scheduler's first step starts the warm-up exactly when it is needed,
\* on the first `cpu` files
WarmUpStarts ==
    spc = "init"
    => /\ spc' = "preprocess" <=> NeedsWarmUp
       /\ spc' = "preprocess"
            => /\ TasksInFlight' = {[file |-> f, preprocess |-> TRUE] : f \in 1..param.cpu}
               /\ Len(queue') = param.cpu

\* The end of the warm-up hands the merged cache of its workers to the first
\* batch and changes nothing else of the run
WarmUpEnds ==
    (spc = "preprocess" /\ spc' = "batch")
    => /\ failed_reads' = UNION {r.failed : r \in UNION {result[f] : f \in DOMAIN result}}
       /\ DOMAIN passed_reads'
            = UNION {DOMAIN r.passed : r \in UNION {result[f] : f \in DOMAIN result}}
       /\ UNCHANGED <<param, start, queue, proc, output>>

---------------------------------------------------------------------------
(* Properties of a cache hit *)

\* C20: for a budget of at least 1, a read whose extracted sequence is in the
\* failed set adds exactly 1 to the unmatched counter and changes no feature
\* count, no other counter and neither part of the cache.
C20_FailedHitCountsOnce ==
    [][\A p \in Procs :
         (/\ CountingStep(p)
          /\ ReachesFallback(TheRead(p))
          /\ WindowSeq(TheRead(p)) \in proc[p].st.failed)
         => /\ proc'[p].st.non_aligned_counter = proc[p].st.non_aligned_counter + 1
            /\ proc'[p].st.counts = proc[p].st.counts
            /\ proc'[p].st.perfect_counter = proc[p].st.perfect_counter
            /\ proc'[p].st.imperfect_counter = proc[p].st.imperfect_counter
            /\ proc'[p].st.quality_failed = proc[p].st.quality_failed
            /\ proc'[p].st.failed = proc[p].st.failed
            /\ proc'[p].st.passed = proc[p].st.passed]_vars

---------------------------------------------------------------------------
(* Properties of the counters *)

\* C21: in the mismatch fallback a read is counted for a feature only if its
\* extracted window has the length of that feature: a shorter (truncated or
\* empty) or longer window leaves the feature's count unchanged.
C21_EqualLengthOnly ==
    [][\A p \in Procs :
         (CountingStep(p) /\ ReachesFallback(TheRead(p)))
         => \A f \in DOMAIN proc[p].st.counts :
              Len(f) # Len(WindowSeq(TheRead(p)))
              => proc'[p].st.counts[f] = proc[p].st.counts[f]]_vars

\* C22: after any number of reads of a file being counted, the reads are the
\* sum of the four category counters, and the feature counts sum to the
\* perfectly matched plus the mismatch-matched reads.
C22_CounterConservation ==
    \A p \in DOMAIN proc :
        (proc[p].busy /\ ~proc[p].preprocess)
        => /\ proc[p].st.reads
                = proc[p].st.perfect_counter + proc[p].st.imperfect_counter
                  + proc[p].st.non_aligned_counter + proc[p].st.quality_failed
           /\ SumCounts(proc[p].st)
                = proc[p].st.perfect_counter + proc[p].st.imperfect_counter

\* What the cache can change of a file's table: the per-feature counts, the
\* mismatch-matched and the unmatched counter
CacheCounters(st) ==
    [counts |-> st.counts,
     imperfect_counter |-> st.imperfect_counter,
     non_aligned_counter |-> st.non_aligned_counter]

EmptyCache == [failed |-> {}, passed |-> <<>>]

\* C23: for a budget of at least 1, the reads of a file give the same
\* per-feature counts and the same mismatch-matched and unmatched counters
\* from the cache the scheduler handed to the file (filled by the warm-up
\* pass and earlier batches) as from an empty cache, under the same answer
\* of the RAM Governor.
C23_CacheTransparent ==
    \A p \in DOMAIN proc :
        (proc[p].busy /\ ~proc[p].preprocess /\ param.miss >= 1)
        => \A ram \in BOOLEAN :
             CacheCounters(RunReads(SubSeq(files[proc[p].file], 1, proc[p].st.reads),
                                    1, StartSt(StartCache(p), ram)))
             = CacheCounters(RunReads(SubSeq(files[proc[p].file], 1, proc[p].st.reads),
                                      1, StartSt(EmptyCache, ram)))

---------------------------------------------------------------------------
(* More properties of the warm-up pass and the Record Extractor *)

\* C24: the warm-up pass never fails, whatever the read counts of its files:
\* the scheduler always gets a merged cache out of it.
C24_WarmUpCompletes == spc # "crashed"

\* The encoded, upper-cased downstream anchor of a configuration
DownAnchor(par) == seq2bin(Upper(CHOOSE d \in par.downstream : TRUE))

\* C25: downstream-only anchor mode: when the anchor is matched at p with
\* trusted anchor bases, a read with p < length is skipped, and otherwise the
\* window is [p - length, p) and the extracted sequence the `length` bases
\* right before the anchor; no window starts at a negative position.
C25_WindowBeforeDownstreamAnchor ==
    (/\ fn.op = "window" /\ fn.done
     /\ fn.par.upstream = {} /\ fn.par.downstream # {}
     /\ AnchorAt(DownAnchor(fn.par), seq2bin(fn.reading.seq),
                 fn.par.miss_search_down) # {})
    => LET s == Len(DownAnchor(fn.par))
           p == Lowest(AnchorAt(DownAnchor(fn.par), seq2bin(fn.reading.seq),
                                fn.par.miss_search_down))
       IN  /\ Trusted(fn.reading.qual, p, p + s, fn.par.qual_down)
              => IF p < fn.par.length
                 THEN fn.out = {}
                 ELSE /\ fn.out = {<<p - fn.par.length, p>>}
                      /\ fn.seq = SubSeq(fn.reading.seq, p - fn.par.length + 1, p)
           /\ \A w \in fn.out : w[1] >= 0

====
